---- MODULE Spec2Model ----
(***************************************************************************)
(* Credential store (services/apiKeyManager.ts), credential rotator and    *)
(* resilient call executor (services/geminiService.ts) of CyberForge.      *)
(*                                                                         *)
(* Strings are sequences of characters so that trim() and the substring    *)
(* tests of the classifier are computed, not assumed.  Entry ids are the   *)
(* integers 1..MaxKeys; 0 stands for localStorage's null.  createdAt is    *)
(* written once and never read by the modelled code, so it is left out.    *)
(***************************************************************************)
EXTENDS Integers, Sequences, FiniteSets, TLC

(* ---- bounds ---- *)
MaxKeys == 3
MaxAttempts == 3
MaxDesigns == 2
MaxCalls == 3

Ids == 1..MaxKeys
None == 0

(* ---- strings ---- *)
StoredKeys == { <<>>, <<"k">> }
StoredName == <<"n">>

VARIABLES entries, activeId,
          pc, attempt, maxRetries, baseDelay, lastError, outcome, log,
          rotLog, ret,
          stored, fac, view,
          peer, batch

storeVars == <<entries, activeId>>
execVars == <<pc, attempt, maxRetries, baseDelay, lastError, outcome, log>>
\* stored: what kind of text the credentials record holds; fac: the façade
\* call in progress; view: what the header last read through onKeyChanged
auxVars == <<stored, fac, view>>
\* peer: the other executeWithRetry run of an image batch, parked at its
\* await; batch: the image batch effect of the design list
bgVars == <<peer, batch>>
vars == <<entries, activeId, pc, attempt, maxRetries, baseDelay, lastError,
          outcome, log, rotLog, ret, stored, fac, view, peer, batch>>

(* ---- ApiKeyManager: reads ---- *)
getAll == entries

getActiveId == activeId

IdsOf(keys) == { keys[i].id : i \in 1..Len(keys) }

\* Array.prototype.findIndex, 0-based, -1 when no element matches
findIndex(keys, id) ==
  IF \E i \in 1..Len(keys) : keys[i].id = id
  THEN (CHOOSE i \in 1..Len(keys) :
          keys[i].id = id /\ \A j \in 1..(i - 1) : keys[j].id # id) - 1
  ELSE -1

NoEntry == [id |-> None, name |-> <<>>, key |-> <<>>]

getActive(keys, act) ==
  IF act = None THEN NoEntry
  ELSE IF findIndex(keys, act) = -1 THEN NoEntry
  ELSE keys[findIndex(keys, act) + 1]

\* null is modelled by the empty string: both are falsy at the call sites
getActiveKey(keys, act) == getActive(keys, act).key

\* mutant: the existence test passes but nothing is written
setActiveNoWrite(keys, act, id) == act

(* ---- ApiKeyManager.setActive: the value written to the active record ---- *)
\* a variant that would record any id as active
setActiveUnchecked(keys, act, id) == id

setActive(keys, act, id) == IF id \in IdsOf(keys) THEN id ELSE act

setActiveRet(keys, id) == id \in IdsOf(keys)


(* ---- String.prototype.includes on character sequences ---- *)
includes(s, sub) ==
  \E i \in 0..(Len(s) - Len(sub)) :
    \A j \in 1..Len(sub) : s[i + j] = sub[j]

Sig429 == <<"4", "2", "9">>
SigTooMany == <<"T", "o", "o", " ", "M", "a", "n", "y", " ",
                "R", "e", "q", "u", "e", "s", "t", "s">>
SigExhausted == <<"R", "E", "S", "O", "U", "R", "C", "E", "_",
                  "E", "X", "H", "A", "U", "S", "T", "E", "D">>
SigQuota == <<"q", "u", "o", "t", "a">>

(* ---- errors: message text plus the attempt that threw the object ---- *)
NoError == [msg |-> <<>>, at |-> 0]

\* Error.prototype.toString of an Error whose message is empty
ErrorToString == <<"E", "r", "r", "o", "r">>

\* the façade's own error, thrown inside the operation (first sentence of
\* the message; the second sentence holds none of the four signals either)
NoKeyMsg == <<"N", "o", " ", "A", "P", "I", " ", "k", "e", "y", " ",
              "c", "o", "n", "f", "i", "g", "u", "r", "e", "d", ".">>

\* what the remote call can reject with, as far as the executor can tell
RateMsg == <<"4", "2", "9", " ", "q", "u", "o", "t", "a">>
OtherMsg == <<"n", "e", "t", "w", "o", "r", "k">>
RemoteErrors == { RateMsg, OtherMsg }

\* a variant that would classify every error that has a message as rate-limit
isRateLimitErrorAny(error) ==
  LET errorStr == IF error.msg # <<>> THEN error.msg ELSE ErrorToString
  IN  Len(errorStr) > 0

isRateLimitError(error) ==
  LET errorStr == IF error.msg # <<>> THEN error.msg ELSE ErrorToString
  IN  \/ includes(errorStr, Sig429)
      \/ includes(errorStr, SigTooMany)
      \/ includes(errorStr, SigExhausted)
      \/ includes(errorStr, SigQuota)

\* mutant: the next index ignores the current one and is always 0
tryRotateTargetFirst(keys, act) ==
  IF Len(keys) <= 1 THEN None
  ELSE IF keys[1].id # act THEN keys[1].id ELSE None

\* mutant: the next index is not wrapped around the end of the list
tryRotateTargetNoWrap(keys, act) ==
  IF Len(keys) <= 1 THEN None
  ELSE LET nextIndex == findIndex(keys, act) + 1
       IN  IF nextIndex < Len(keys) /\ keys[nextIndex + 1].id # act
           THEN keys[nextIndex + 1].id
           ELSE None

\* a variant that would take an active id found nowhere for the first entry
tryRotateTargetFromFirst(keys, act) ==
  IF Len(keys) <= 1 THEN None
  ELSE LET found == findIndex(keys, act)
           currentIndex == IF found = -1 THEN 0 ELSE found
           nextIndex == (currentIndex + 1) % Len(keys)
           nextKey == keys[nextIndex + 1]
       IN  IF nextKey.id # act THEN nextKey.id ELSE None

\* mutant: the guard lets a single entry through
tryRotateTargetLooseGuard(keys, act) ==
  IF Len(keys) < 1 THEN None
  ELSE LET currentIndex == findIndex(keys, act)
           nextIndex == (currentIndex + 1) % Len(keys)
           nextKey == keys[nextIndex + 1]
       IN  IF nextKey.id # act THEN nextKey.id ELSE None

(* ---- tryRotateApiKey: the id handed to setActive, None when it is not called ---- *)
tryRotateTarget(keys, act) ==
  IF Len(keys) <= 1 THEN None
  ELSE LET currentIndex == findIndex(keys, act)
           nextIndex == (currentIndex + 1) % Len(keys)
           nextKey == keys[nextIndex + 1]
       IN  IF nextKey.id # act THEN nextKey.id ELSE None

tryRotateApiKey(keys, act) == tryRotateTarget(keys, act) # None

tryRotateActive(keys, act) ==
  IF tryRotateTarget(keys, act) # None
  THEN setActive(keys, act, tryRotateTarget(keys, act))
  ELSE act

(* ---- executeWithRetry ---- *)
CooldownBase == 5000

Pow2(n) == 2 ^ n

\* mutant: exponent attempt instead of attempt - 1
BackoffDelayDoubled(base, a) == base * Pow2(a)

BackoffDelay(base, a) == base * Pow2(a - 1)

\* mutant: the cooldown is scaled by the 0-based loop index
CooldownDelayZeroBased(a) == CooldownBase * a

\* mutant: the cooldown is not scaled at all
CooldownDelayFlat(a) == CooldownBase

CooldownDelay(a) == CooldownBase * (a + 1)

\* attempt < maxRetries - 1: a later attempt remains to use a new credential
\* a variant that would not rotate after the first attempt
canRotateAfterFirst(a, m) == a > 0 /\ a < m - 1

\* a variant that would rotate after the final attempt too
canRotateAlways(a, m) == a < m

canRotate(a, m) == a < m - 1

\* mutant: the last-attempt test compares against maxRetries
isLastAttemptOffByOne(a, m) == a = m

\* attempt === maxRetries - 1
isLastAttempt(a, m) == a = m - 1

\* mutant: rethrows the error saved by the previous iteration
thrownStale(error, last) == last

\* throw error: the catch parameter, not the saved lastError
thrown(error, last) == error

\* one record per loop iteration, indexed by the 1-based attempt number
NewRec(d) ==
  [backoff |-> d, invoked |-> FALSE, used |-> None, res |-> "pending",
   err |-> NoError, rot |-> "none", to |-> None, cool |-> 0, act |-> None]

SetLast(lg, f, v) == [lg EXCEPT ![Len(lg)] = [@ EXCEPT ![f] = v]]

NoOutcome == [kind |-> "none", val |-> 0, err |-> NoError]

NoRet == [op |-> "none", ok |-> FALSE]

BaseDelays == { 2000, 3000 }

\* the catch block of the loop body, run for the error of loop index a under
\* the policy (m, b); lg is the log with this attempt's record last
Catch(error, lg, a, m, b) ==
  LET l1 == SetLast(SetLast(lg, "res", "failed"), "err", error)
  IN
  /\ lastError' = error
  /\ maxRetries' = m
  /\ baseDelay' = b
  /\ UNCHANGED <<entries, rotLog, ret>>
  /\ IF isRateLimitError(error) /\ canRotate(a, m)
     THEN IF tryRotateApiKey(entries, activeId)
          THEN \* continue: attempt++ and the next iteration's sleep starts
               /\ activeId' = tryRotateActive(entries, activeId)
               /\ attempt' = a + 1
               /\ pc' = "sleeping"
               /\ outcome' = outcome
               /\ log' = Append(
                    SetLast(SetLast(SetLast(l1, "rot", "yes"),
                                    "to", tryRotateTarget(entries, activeId)),
                            "act", tryRotateActive(entries, activeId)),
                    NewRec(BackoffDelay(b, a + 1)))
          ELSE \* sleep(5000 * (attempt + 1)) starts
               /\ activeId' = activeId
               /\ attempt' = a
               /\ pc' = "cooldown"
               /\ outcome' = outcome
               /\ log' = SetLast(SetLast(SetLast(l1, "rot", "no"),
                                         "cool", CooldownDelay(a)),
                                 "act", activeId)
     ELSE IF isLastAttempt(a, m)
          THEN /\ activeId' = activeId
               /\ attempt' = a
               /\ pc' = "FAILED"
               /\ outcome' = [kind |-> "throw", val |-> 0,
                               err |-> thrown(error, lastError)]
               /\ log' = SetLast(l1, "act", activeId)
          ELSE /\ activeId' = activeId
               /\ attempt' = a + 1
               /\ pc' = "sleeping"
               /\ outcome' = outcome
               /\ log' = Append(SetLast(l1, "act", activeId),
                                NewRec(BackoffDelay(b, a + 1)))

(* ---- the façade functions and the closures they hand to executeWithRetry ---- *)
InlineFacades == { "generateDesigns", "generateImageForDesign",
                   "generateCategoryIcon" }

CapturingFacades == { "generatePartDocumentation", "generateRealPartAbstract",
                      "analyzeProductLink" }

Facades == InlineFacades \cup CapturingFacades

NoFacade == [fn |-> "none", key |-> None, res |-> NoOutcome]

\* the closure calls ApiKeyManager.getActiveKey() itself, on every attempt
readsKeyInside(fn) == fn \notin CapturingFacades

\* a variant in which every closure would send the secret captured before
\* executeWithRetry was called
keyUsedCaptured(f, keys, act) == f.key

\* the entry whose secret an attempt sends: the one captured before
\* executeWithRetry was called, or the one active when the closure runs
keyUsed(f, keys, act) ==
  IF readsKeyInside(f.fn) THEN getActive(keys, act).id ELSE f.key

\* a variant in which every façade would ask for four attempts
PolicyFourAttempts(fn) == [m |-> 4, b |-> 3000]

\* maxRetries and baseDelay each façade passes to executeWithRetry
Policy(fn) ==
  CASE fn = "generateDesigns"           -> [m |-> 3, b |-> 3000]
    [] fn = "generateImageForDesign"    -> [m |-> 2, b |-> 2000]
    [] fn = "generateCategoryIcon"      -> [m |-> 2, b |-> 2000]
    [] fn = "generatePartDocumentation" -> [m |-> 2, b |-> 1500]
    [] fn = "generateRealPartAbstract"  -> [m |-> 2, b |-> 1500]
    [] fn = "analyzeProductLink"        -> [m |-> 2, b |-> 2000]

\* undefined / null handed back in place of a value
Absent == [kind |-> "return", val |-> 0, err |-> NoError]

\* façades that let executeWithRetry's rejection reach their caller
Propagating == { "generateDesigns", "generateCategoryIcon", "analyzeProductLink" }

\* a variant in which every façade rethrows
onFailedRethrow(fn, o) == o

\* what the façade settles with when executeWithRetry rejects with o
onFailed(fn, o) == IF fn \in Propagating THEN o ELSE Absent

\* the façade's promise settles in the same turn as executeWithRetry's
facadeResult(f, p, o) ==
  IF f.fn = "none" \/ p \notin {"SUCCEEDED", "FAILED"}
  THEN f
  ELSE [f EXCEPT !.res = IF p = "SUCCEEDED" THEN o ELSE onFailed(f.fn, o)]

\* apiCall() is entered: the operation reads the active secret and either
\* throws at once or leaves the remote request in flight
Invoke(lg, a, m, b, f) ==
  LET l1 == SetLast(SetLast(lg, "invoked", TRUE),
                    "used", keyUsed(f, entries, activeId))
  IN  IF readsKeyInside(f.fn) /\ getActiveKey(entries, activeId) = <<>>
      THEN Catch([msg |-> NoKeyMsg, at |-> Len(lg)], l1, a, m, b)
      ELSE /\ pc' = "calling"
           /\ log' = l1
           /\ attempt' = a
           /\ maxRetries' = m
           /\ baseDelay' = b
           /\ UNCHANGED <<entries, activeId, lastError, outcome, rotLog, ret>>

\* executeWithRetry(apiCall, m, b) is called: loop index 0 enters apiCall
\* without a sleep, in the caller's own turn
Start(m, b) ==
  /\ pc = "idle"
  /\ Invoke(<<NewRec(0)>>, 0, m, b, NoFacade)
  /\ UNCHANGED <<auxVars, bgVars>>

\* the backoff timer of the current attempt fires
Wake ==
  /\ pc = "sleeping"
  /\ Invoke(log, attempt, maxRetries, baseDelay, fac)
  /\ fac' = facadeResult(fac, pc', outcome')
  /\ UNCHANGED <<stored, view, bgVars>>

\* mutant: a success also advances the active credential
SucceedRotating ==
  /\ pc = "calling"
  /\ pc' = "SUCCEEDED"
  /\ outcome' = [kind |-> "return", val |-> Len(log), err |-> NoError]
  /\ log' = SetLast(log, "res", "ok")
  /\ activeId' = tryRotateActive(entries, activeId)
  /\ UNCHANGED <<entries, attempt, maxRetries, baseDelay, lastError,
                 rotLog, ret>>
  /\ fac' = facadeResult(fac, pc', outcome')
  /\ UNCHANGED <<stored, view, bgVars>>

\* the remote request of the current attempt resolves
Succeed ==
  /\ pc = "calling"
  /\ pc' = "SUCCEEDED"
  /\ outcome' = [kind |-> "return", val |-> Len(log), err |-> NoError]
  /\ log' = SetLast(log, "res", "ok")
  /\ UNCHANGED <<entries, activeId, attempt, maxRetries, baseDelay, lastError,
                 rotLog, ret>>
  /\ fac' = facadeResult(fac, pc', outcome')
  /\ UNCHANGED <<stored, view, bgVars>>

\* the remote request of the current attempt rejects
Fail(msg) ==
  /\ pc = "calling"
  /\ Catch([msg |-> msg, at |-> Len(log)], log, attempt, maxRetries, baseDelay)
  /\ fac' = facadeResult(fac, pc', outcome')
  /\ UNCHANGED <<stored, view, bgVars>>

\* the cooldown timer fires: the last-attempt test, then attempt++
CooldownWake ==
  /\ pc = "cooldown"
  /\ IF isLastAttempt(attempt, maxRetries)
     THEN /\ pc' = "FAILED"
          /\ outcome' = [kind |-> "throw", val |-> 0,
                          err |-> thrown(lastError, lastError)]
          /\ UNCHANGED <<attempt, log>>
     ELSE /\ pc' = "sleeping"
          /\ attempt' = attempt + 1
          /\ log' = Append(log, NewRec(BackoffDelay(baseDelay, attempt + 1)))
          /\ outcome' = outcome
  /\ UNCHANGED <<entries, activeId, maxRetries, baseDelay, lastError, rotLog, ret>>
  /\ UNCHANGED <<auxVars, bgVars>>

(* ---- persisted records found when the page loads ---- *)
RECURSIVE SeqsUpTo(_, _)
SeqsUpTo(S, n) ==
  IF n = 0 THEN { <<>> }
  ELSE LET shorter == SeqsUpTo(S, n - 1)
       IN  shorter \cup { Append(q, x) : q \in shorter, x \in S }

UniqueIds(keys) == \A i, j \in 1..Len(keys) : keys[i].id = keys[j].id => i = j

ExecEntries ==
  { q \in SeqsUpTo([id : Ids, name : {StoredName}, key : StoredKeys], MaxKeys) :
      UniqueIds(q) }

\* no second run, and no design list yet
NoPeer == [pc |-> "idle", attempt |-> 0, maxRetries |-> 0, baseDelay |-> 0,
           lastError |-> NoError, outcome |-> NoOutcome, log |-> <<>>,
           fac |-> NoFacade]

\* App's state before anything is forged: designs holds [id, img] (img: the
\* design has an image); gen, created, flights, flying, calls and stale
\* record what has happened (generateDesigns calls awaited, designs made,
\* batches in flight, the designs of the running batch, image calls issued
\* per design, designs whose image failed since the last user action)
NoBatch == [status |-> "IDLE", loading |-> FALSE, dataReady |-> FALSE,
            designs |-> <<>>, gen |-> 0, created |-> 0, flights |-> 0,
            flying |-> {}, calls |-> <<>>, stale |-> {}]

\* the header's reading of the active entry: nothing read yet
NoView == [loaded |-> FALSE, named |-> FALSE, name |-> <<>>, has |-> FALSE]

Init ==
  /\ entries \in ExecEntries
  /\ activeId \in Ids \cup {None}
  /\ pc = "idle"
  /\ attempt = 0
  /\ maxRetries = 0
  /\ baseDelay = 0
  /\ lastError = NoError
  /\ outcome = NoOutcome
  /\ log = <<>>
  /\ rotLog = <<>>
  /\ ret = NoRet
  /\ stored = "array"
  /\ fac = NoFacade
  /\ view = NoView
  /\ peer = NoPeer
  /\ batch = NoBatch

Next ==
  \/ \E m \in 1..MaxAttempts, b \in BaseDelays : Start(m, b)
  \/ Wake
  \/ Succeed
  \/ \E msg \in RemoteErrors : Fail(msg)
  \/ CooldownWake

Spec == Init /\ [][Next]_vars

(* ---- ApiKeyManager: mutations, called from the management screen ---- *)
\* arguments of add and update: a padded name and secret, or blanks (the
\* store trims and keeps what it is given; only the form rejects blanks)
CredInputs == { [name |-> <<"n", " ">>, key |-> <<" ", "k">>],
                [name |-> <<" ">>, key |-> <<>>] }

\* String.prototype.trim over the one whitespace character of the inputs
RECURSIVE TrimStart(_)
TrimStart(s) ==
  IF s # <<>> /\ Head(s) = " " THEN TrimStart(Tail(s)) ELSE s

RECURSIVE TrimEnd(_)
TrimEnd(s) ==
  IF s # <<>> /\ s[Len(s)] = " " THEN TrimEnd(SubSeq(s, 1, Len(s) - 1)) ELSE s

Trim(s) == TrimEnd(TrimStart(s))

\* Array.prototype.filter(k => k.id !== id)
RECURSIVE filterOut(_, _)
filterOut(keys, id) ==
  IF keys = <<>> THEN <<>>
  ELSE IF Head(keys).id = id THEN filterOut(Tail(keys), id)
       ELSE <<Head(keys)>> \o filterOut(Tail(keys), id)

\* the ids Date.now() and Math.random() can still produce: none ever issued
FreshIds == Ids \ (IdsOf(entries) \cup {activeId})

\* a variant of add that would activate every entry it adds
addActiveAlways(keys, act, id) == setActive(keys, act, id)

\* if (keys.length === 1) this.setActive(newKey.id)
addActive(keys, act, id) ==
  IF Len(keys) = 1 THEN setActive(keys, act, id) ELSE act

addStore(id, name, key) ==
  LET newKey == [id |-> id, name |-> Trim(name), key |-> Trim(key)]
      keys == Append(getAll, newKey)
  IN  /\ Len(entries) < MaxKeys
      /\ id \in FreshIds
      /\ entries' = keys
      /\ activeId' = addActive(keys, activeId, id)
      /\ ret' = [op |-> "add", ok |-> TRUE]
      /\ rotLog' = <<>>
      /\ stored' = "array"

add(id, name, key) ==
  addStore(id, name, key) /\ UNCHANGED <<execVars, fac, view, bgVars>>

\* a variant of delete that would clear the active record and stop there
deleteActiveClear(filtered, act, id) == IF act = id THEN None ELSE act

\* a variant of delete that would leave the active record alone
deleteActiveKeep(filtered, act, id) == act

\* if (activeId === id) setActive(filtered[0].id) or removeItem(ACTIVE_KEY_ID)
deleteActive(filtered, act, id) ==
  IF act = id
  THEN IF Len(filtered) > 0
       THEN setActive(filtered, act, filtered[1].id)
       ELSE None
  ELSE act

deleteStore(id) ==
  LET keys == getAll
      filtered == filterOut(keys, id)
  IN  /\ IF Len(filtered) = Len(keys)
         THEN /\ ret' = [op |-> "delete", ok |-> FALSE]
              /\ UNCHANGED <<storeVars, stored>>
         ELSE /\ entries' = filtered
              /\ activeId' = deleteActive(filtered, getActiveId, id)
              /\ ret' = [op |-> "delete", ok |-> TRUE]
              /\ stored' = "array"
      /\ rotLog' = <<>>

delete(id) ==
  deleteStore(id) /\ UNCHANGED <<execVars, fac, view, bgVars>>

setActiveStore(id) ==
  /\ activeId' = setActive(getAll, activeId, id)
  /\ ret' = [op |-> "setActive", ok |-> setActiveRet(getAll, id)]
  /\ rotLog' = <<>>
  /\ UNCHANGED <<entries, stored>>

setActiveCall(id) ==
  setActiveStore(id) /\ UNCHANGED <<execVars, fac, view, bgVars>>

updateStore(id, name, key) ==
  LET keys == getAll
      index == findIndex(keys, id)
  IN  /\ IF index = -1
         THEN /\ ret' = [op |-> "update", ok |-> FALSE]
              /\ UNCHANGED <<entries, stored>>
         ELSE /\ entries' = [keys EXCEPT ![index + 1] =
                               [@ EXCEPT !.name = Trim(name), !.key = Trim(key)]]
              /\ ret' = [op |-> "update", ok |-> TRUE]
              /\ stored' = "array"
      /\ rotLog' = <<>>
      /\ UNCHANGED activeId

update(id, name, key) ==
  updateStore(id, name, key) /\ UNCHANGED <<execVars, fac, view, bgVars>>

clearAll ==
  /\ entries' = <<>>
  /\ activeId' = None
  /\ ret' = [op |-> "clearAll", ok |-> TRUE]
  /\ rotLog' = <<>>
  /\ stored' = "absent"
  /\ UNCHANGED <<execVars, fac, view, bgVars>>

\* tryRotateApiKey called on its own; rotLog keeps the run of consecutive
\* rotations since the last other store call
MaxRot == MaxKeys

rotateToNext ==
  /\ Len(rotLog) < MaxRot
  /\ activeId' = tryRotateActive(getAll, getActiveId)
  /\ ret' = [op |-> "rotate", ok |-> tryRotateApiKey(getAll, getActiveId)]
  /\ rotLog' = Append(rotLog,
                 [from |-> activeId,
                  ok |-> tryRotateApiKey(getAll, getActiveId),
                  act |-> tryRotateActive(getAll, getActiveId)])
  /\ UNCHANGED <<entries, pc, attempt, maxRetries, baseDelay, lastError,
                 outcome, log>>
  /\ UNCHANGED <<auxVars, bgVars>>

NextStore ==
  \/ \E id \in Ids, c \in CredInputs : add(id, c.name, c.key)
  \/ \E id \in Ids : delete(id)
  \/ \E id \in Ids : setActiveCall(id)
  \/ \E id \in Ids, c \in CredInputs : update(id, c.name, c.key)
  \/ clearAll
  \/ rotateToNext

SpecStore == Init /\ [][NextStore]_vars

\* every timer fires and every remote request settles
(* ---- a façade function is called: its own key check, then executeWithRetry ---- *)
CallFacade(fn) ==
  /\ pc = "idle"
  /\ fac = NoFacade
  /\ IF ~readsKeyInside(fn) /\ getActiveKey(entries, activeId) = <<>>
     THEN \* if (!apiKey) return undefined / null
          /\ fac' = [fn |-> fn, key |-> None, res |-> Absent]
          /\ UNCHANGED <<storeVars, execVars, rotLog, ret>>
     ELSE LET f == [fn |-> fn,
                    key |-> IF readsKeyInside(fn) THEN None
                            ELSE getActive(entries, activeId).id,
                    res |-> NoOutcome]
          IN  /\ Invoke(<<NewRec(0)>>, 0, Policy(fn).m, Policy(fn).b, f)
              /\ fac' = facadeResult(f, pc', outcome')
  /\ UNCHANGED <<stored, view, bgVars>>

NextFacade ==
  \/ \E fn \in Facades : CallFacade(fn)
  \/ Wake
  \/ Succeed
  \/ \E msg \in RemoteErrors : Fail(msg)
  \/ CooldownWake

SpecFacade == Init /\ [][NextFacade]_vars

(* ---- the store read from whatever text the credentials record holds ---- *)
\* nothing stored, text JSON.parse rejects, JSON that is not an array, an array
StoredKinds == {"absent", "garbage", "object", "array"}

EmptyList == [isList |-> TRUE, items |-> <<>>]

\* ApiKeyManager.getAll: stored ? JSON.parse(stored) : [], [] when parse throws
getAllRaw(kind, keys) ==
  CASE kind = "absent"  -> EmptyList
    [] kind = "garbage" -> EmptyList
    [] kind = "object"  -> [isList |-> FALSE, items |-> <<>>]
    [] kind = "array"   -> [isList |-> TRUE, items |-> keys]

LoadOps == {"getAll", "loadGetActive", "loadSetActive", "loadRotate"}

InitLoad ==
  /\ stored \in StoredKinds
  /\ entries \in (IF stored = "array" THEN ExecEntries ELSE {<<>>})
  /\ activeId \in Ids \cup {None}
  /\ pc = "idle"
  /\ attempt = 0
  /\ maxRetries = 0
  /\ baseDelay = 0
  /\ lastError = NoError
  /\ outcome = NoOutcome
  /\ log = <<>>
  /\ rotLog = <<>>
  /\ ret = NoRet
  /\ fac = NoFacade
  /\ view = NoView
  /\ peer = NoPeer
  /\ batch = NoBatch

\* in these four actions ret.ok records that the call completed and handed
\* back a value of its declared type
LoadGetAll ==
  /\ ret' = [op |-> "getAll", ok |-> getAllRaw(stored, entries).isList]
  /\ UNCHANGED <<storeVars, execVars, rotLog, auxVars, bgVars>>

\* getActive: null when no active id, else keys.find(...)
LoadGetActive ==
  /\ ret' = [op |-> "loadGetActive",
             ok |-> activeId = None \/ getAllRaw(stored, entries).isList]
  /\ UNCHANGED <<storeVars, execVars, rotLog, auxVars, bgVars>>

\* setActive: keys.some(...) on what getAll returned
LoadSetActive(id) ==
  LET raw == getAllRaw(stored, entries)
  IN  /\ ret' = [op |-> "loadSetActive", ok |-> raw.isList]
      /\ activeId' = IF raw.isList THEN setActive(raw.items, activeId, id)
                     ELSE activeId
      /\ UNCHANGED <<entries, execVars, rotLog, auxVars, bgVars>>

\* tryRotateApiKey: keys.length <= 1, then keys.findIndex(...)
LoadRotate ==
  LET raw == getAllRaw(stored, entries)
  IN  /\ ret' = [op |-> "loadRotate", ok |-> raw.isList]
      /\ activeId' = IF raw.isList THEN tryRotateActive(raw.items, activeId)
                     ELSE activeId
      /\ UNCHANGED <<entries, execVars, rotLog, auxVars, bgVars>>

NextLoad ==
  \/ LoadGetAll
  \/ LoadGetActive
  \/ \E id \in Ids : LoadSetActive(id)
  \/ LoadRotate

SpecLoad == InitLoad /\ [][NextLoad]_vars

(* ---- the key manager panel and the header that shows the active entry ---- *)
\* what the form fields can hold when a handler runs
UiInputs == { [name |-> <<"n", " ">>, key |-> <<"k">>],
              [name |-> <<"m">>, key |-> <<"k">>],
              [name |-> <<" ">>, key |-> <<"k">>] }

\* updateActiveKeyName / onKeyChanged: activeApiKeyName and hasSelectedKey
viewOf(keys, act) ==
  LET activeKey == getActive(keys, act)
  IN  [loaded |-> TRUE,
       named  |-> activeKey # NoEntry,
       name   |-> activeKey.name,
       has    |-> Len(keys) > 0]

\* App's mount effect
Mount ==
  /\ ~view.loaded
  /\ view' = viewOf(entries, activeId)
  /\ UNCHANGED <<storeVars, execVars, rotLog, ret, stored, fac, bgVars>>

onKeyChanged == view' = viewOf(entries', activeId')

handleAddKey(id, name, key) ==
  /\ view.loaded
  /\ IF Trim(name) = <<>> \/ Trim(key) = <<>>
     THEN UNCHANGED vars
     ELSE /\ addStore(id, name, key)
          /\ onKeyChanged
          /\ UNCHANGED <<execVars, fac, bgVars>>

\* the panel lists the stored entries; confirm() was answered with OK
handleDeleteKey(id) ==
  /\ view.loaded
  /\ id \in IdsOf(entries)
  /\ deleteStore(id)
  /\ onKeyChanged
  /\ UNCHANGED <<execVars, fac, bgVars>>

handleSetActive(id) ==
  /\ view.loaded
  /\ id \in IdsOf(entries)
  /\ setActiveStore(id)
  /\ onKeyChanged
  /\ UNCHANGED <<execVars, fac, bgVars>>

handleSaveEdit(id, name, key) ==
  /\ view.loaded
  /\ id \in IdsOf(entries)
  /\ Trim(name) # <<>> /\ Trim(key) # <<>>
  /\ updateStore(id, name, key)
  /\ onKeyChanged
  /\ UNCHANGED <<execVars, fac, bgVars>>

\* ids are opaque and unique: the panel's add takes the least unused one
NewId == CHOOSE id \in FreshIds : \A other \in FreshIds : id <= other

\* the sessions explored: the panel is used, then a generation is started and
\* runs to its end
PanelOpen == pc = "idle" /\ fac = NoFacade

NextUI ==
  \/ Mount
  \/ \E c \in UiInputs :
       PanelOpen /\ FreshIds # {} /\ handleAddKey(NewId, c.name, c.key)
  \/ \E id \in Ids : PanelOpen /\ handleDeleteKey(id)
  \/ \E id \in Ids : PanelOpen /\ handleSetActive(id)
  \/ \E id \in Ids, c \in UiInputs : PanelOpen /\ handleSaveEdit(id, c.name, c.key)
  \/ CallFacade("generateDesigns")
  \/ Wake
  \/ Succeed
  \/ \E msg \in RemoteErrors : Fail(msg)
  \/ CooldownWake

\* the application opened for the first time: nothing stored yet
InitUI == Init /\ entries = <<>> /\ activeId = None

SpecUI == InitUI /\ [][NextUI]_vars

\* the store calls and the rotations of any number of executeWithRetry runs,
\* in any order, on a store that starts empty: tryRotateApiKey has no await,
\* so a rotation made in a catch block is one store call among the others
SpecFromEmpty == InitUI /\ [][NextStore]_vars

(* ---- isRateLimitError applied to any value a promise can reject with ---- *)
\* texts with, without and one character short of the four signals
TextCores ==
  { Sig429, SigTooMany, SigExhausted, SigQuota,
    <<"4", "2">>, <<"Q", "u", "o", "t", "a">>,
    <<"t", "o", "o", " ", "m", "a", "n", "y", " ",
      "r", "e", "q", "u", "e", "s", "t", "s">>,
    <<"r", "e", "s", "o", "u", "r", "c", "e", "_",
      "e", "x", "h", "a", "u", "s", "t", "e", "d">>,
    OtherMsg, <<>> }

Texts ==
  { pre \o core \o post :
      pre \in {<<>>, <<"x">>}, core \in TextCores, post \in {<<>>, <<"9">>} }

\* null, an Error, a thrown string, an object without message, an object
\* whose message is a number
ErrorValues ==
  { [kind |-> "null", text |-> <<>>, num |-> 0],
    [kind |-> "object", text |-> <<>>, num |-> 0] }
  \cup [kind : {"Error", "string"}, text : Texts, num : {0}]
  \cup [kind : {"numberMessage"}, text : {<<>>}, num : {0, 429}]

ObjectToString == <<"[", "o", "b", "j", "e", "c", "t", " ",
                    "O", "b", "j", "e", "c", "t", "]">>

\* error?.message: absent, a string, or something that is not a string
messageOf(e) ==
  CASE e.kind = "Error"         -> [type |-> "string", truthy |-> e.text # <<>>,
                                    str |-> e.text]
    [] e.kind = "numberMessage" -> [type |-> "number", truthy |-> e.num # 0,
                                    str |-> <<>>]
    [] OTHER                    -> [type |-> "undefined", truthy |-> FALSE,
                                    str |-> <<>>]

\* error?.toString(), the empty text standing for undefined
toStringOf(e) ==
  CASE e.kind = "null"   -> <<>>
    [] e.kind = "Error"  -> IF e.text = <<>> THEN ErrorToString
                            ELSE ErrorToString \o <<":", " ">> \o e.text
    [] e.kind = "string" -> e.text
    [] OTHER             -> ObjectToString

hasSignal(errorStr) ==
  \/ includes(errorStr, Sig429)
  \/ includes(errorStr, SigTooMany)
  \/ includes(errorStr, SigExhausted)
  \/ includes(errorStr, SigQuota)

\* the call: returns a boolean, or raises when errorStr has no includes method
classify(e) ==
  LET message == messageOf(e)
  IN  IF message.truthy
      THEN IF message.type = "string"
           THEN [raises |-> FALSE, value |-> hasSignal(message.str)]
           ELSE [raises |-> TRUE, value |-> FALSE]
      ELSE [raises |-> FALSE, value |-> hasSignal(toStringOf(e))]

TypeErrorThrown == [kind |-> "throw", val |-> 0,
                    err |-> [msg |-> <<"T", "y", "p", "e", "E", "r", "r", "o", "r">>,
                             at |-> 0]]

InitClassify ==
  /\ lastError \in ErrorValues
  /\ entries = <<>>
  /\ activeId = None
  /\ pc = "idle"
  /\ attempt = 0
  /\ maxRetries = 0
  /\ baseDelay = 0
  /\ outcome = NoOutcome
  /\ log = <<>>
  /\ rotLog = <<>>
  /\ ret = NoRet
  /\ stored = "absent"
  /\ fac = NoFacade
  /\ view = NoView
  /\ peer = NoPeer
  /\ batch = NoBatch

\* isRateLimitError(lastError): ret.ok is the boolean returned
Classify ==
  /\ ret = NoRet
  /\ ret' = [op |-> "isRateLimitError", ok |-> classify(lastError).value]
  /\ outcome' = IF classify(lastError).raises THEN TypeErrorThrown
                ELSE [kind |-> "return", val |-> 0, err |-> NoError]
  /\ UNCHANGED <<storeVars, pc, attempt, maxRetries, baseDelay, lastError, log,
                 rotLog, auxVars, bgVars>>

NextClassify == Classify

SpecClassify == InitClassify /\ [][NextClassify]_vars

(* ---- an image batch of two designs: two executeWithRetry runs side by side ---- *)
\* secrets the remote accepts ("k") and secrets whose quota is used up ("x")
BatchKeys == { <<"k">>, <<"x">> }

\* lists as the panel builds them: ids in order of creation, no blank secret
BatchEntries ==
  { q \in SeqsUpTo([id : Ids, name : {StoredName}, key : BatchKeys], MaxKeys) :
      \A i, j \in 1..Len(q) : i < j => q[i].id < q[j].id }

InitBatch ==
  /\ entries \in BatchEntries
  /\ activeId \in (IF entries = <<>> THEN {None} ELSE IdsOf(entries))
  /\ pc = "idle"
  /\ attempt = 0
  /\ maxRetries = 0
  /\ baseDelay = 0
  /\ lastError = NoError
  /\ outcome = NoOutcome
  /\ log = <<>>
  /\ rotLog = <<>>
  /\ ret = NoRet
  /\ stored = "array"
  /\ fac = NoFacade
  /\ view = NoView
  /\ peer = NoPeer
  /\ batch = NoBatch

\* the run whose continuation the event loop is executing, as a record
Cur == [pc |-> pc, attempt |-> attempt, maxRetries |-> maxRetries,
        baseDelay |-> baseDelay, lastError |-> lastError, outcome |-> outcome,
        log |-> log, fac |-> fac]

BothStarted == fac.fn # "none" /\ peer.fac.fn # "none"

\* the event loop turns to the other run: its first synchronous part right
\* after the first run's (pending.map calls both in one turn), or a
\* continuation that is still pending
Dispatch ==
  /\ pc # "idle"
  /\ peer.pc \notin {"SUCCEEDED", "FAILED"}
  /\ pc' = peer.pc
  /\ attempt' = peer.attempt
  /\ maxRetries' = peer.maxRetries
  /\ baseDelay' = peer.baseDelay
  /\ lastError' = peer.lastError
  /\ outcome' = peer.outcome
  /\ log' = peer.log
  /\ fac' = peer.fac
  /\ peer' = Cur
  /\ UNCHANGED <<storeVars, rotLog, ret, stored, view, batch>>

NextBatch ==
  \/ CallFacade("generateImageForDesign")
  \/ Dispatch
  \/ BothStarted /\ Wake
  \/ BothStarted /\ Succeed
  \/ \E msg \in RemoteErrors : BothStarted /\ Fail(msg)
  \/ BothStarted /\ CooldownWake

SpecBatch == InitBatch /\ [][NextBatch]_vars

(* ---- the image batch effect of App ---- *)
\* designs.filter(d => d.images.length === 0), as ids
pendingOf(b) == { b.designs[i].id : i \in { j \in 1..Len(b.designs) : ~b.designs[j].img } }

\* the effect body, run after every render in which designs, status or
\* isImageLoading changed: starts a batch over the pending designs
effect(b) ==
  IF pendingOf(b) # {} /\ b.status = "SUCCESS" /\ ~b.loading
  THEN [b EXCEPT !.loading = TRUE,
                 !.flights = @ + 1,
                 !.flying = pendingOf(b),
                 !.calls = [d \in DOMAIN b.calls |->
                              IF d \in pendingOf(b) THEN b.calls[d] + 1
                              ELSE b.calls[d]]]
  ELSE b

\* the state after a handler's updates have rendered and the effect has run;
\* runs that would issue more than MaxCalls calls for a design are cut off
Render(b) ==
  /\ batch' = effect(b)
  /\ \A d \in DOMAIN batch'.calls : batch'.calls[d] <= MaxCalls
  /\ UNCHANGED <<storeVars, execVars, rotLog, ret, auxVars, peer>>

\* the user presses the forge button
handleSynthesize ==
  /\ batch.created + batch.gen < MaxDesigns
  /\ Render([batch EXCEPT !.status = "GENERATING", !.dataReady = FALSE,
                          !.gen = @ + 1, !.stale = {}])

\* generateDesigns resolves with n designs, none of them with an image
DesignsArrive(n) ==
  /\ batch.gen > 0
  /\ batch.created + n <= MaxDesigns
  /\ Render([batch EXCEPT
       !.gen = @ - 1,
       !.created = @ + n,
       !.designs = @ \o [i \in 1..n |-> [id |-> batch.created + i, img |-> FALSE]],
       !.calls = @ \o [i \in 1..n |-> 0],
       !.dataReady = (n > 0) \/ @])

\* generateDesigns rejects
SynthesisFails ==
  /\ batch.gen > 0
  /\ Render([batch EXCEPT !.gen = @ - 1, !.status = "ERROR"])

\* SynthesisProgress reaches its end with the data ready: onComplete
onComplete ==
  /\ batch.status = "GENERATING"
  /\ batch.dataReady
  /\ Render([batch EXCEPT !.status = "SUCCESS"])

\* the PURGE button
Purge ==
  /\ batch.designs # <<>> \/ batch.status # "IDLE"
  /\ Render([batch EXCEPT !.designs = <<>>, !.status = "IDLE", !.stale = {}])

\* every generateImageForDesign of the running batch has settled, those of
\* ok with an image and the others with undefined: Promise.all resolves
BatchSettles(ok) ==
  /\ batch.flights > 0
  /\ Render([batch EXCEPT
       !.designs = [i \in DOMAIN @ |->
                      IF @[i].id \in ok THEN [@[i] EXCEPT !.img = TRUE] ELSE @[i]],
       !.loading = FALSE,
       !.flights = @ - 1,
       !.flying = {},
       !.stale = @ \cup (batch.flying \ ok)])

NextImages ==
  \/ handleSynthesize
  \/ \E n \in 0..MaxDesigns : DesignsArrive(n)
  \/ SynthesisFails
  \/ onComplete
  \/ Purge
  \/ \E ok \in SUBSET batch.flying : BatchSettles(ok)

SpecImages == InitUI /\ [][NextImages]_vars

FairSpec == Spec /\ WF_vars(Next)

\* a timer that is due fires and a request in flight settles, however the
\* event loop alternates between the two runs; the synchronous part of the
\* second call follows the first in the same turn
FairBatch ==
  /\ SpecBatch
  /\ WF_vars(CallFacade("generateImageForDesign"))
  /\ WF_vars(Dispatch)
  /\ SF_vars(BothStarted /\ Wake)
  /\ SF_vars(BothStarted /\ (Succeed \/ \E msg \in RemoteErrors : Fail(msg)))
  /\ SF_vars(BothStarted /\ CooldownWake)

(* ======================= properties ======================= *)
Terminal == pc \in {"SUCCEEDED", "FAILED"}

Calls == Cardinality({ i \in 1..Len(log) : log[i].invoked })

Failed(i) == log[i].res = "failed"

RateLimited(i) == Failed(i) /\ isRateLimitError(log[i].err)

AllFailed ==
  /\ pc # "idle"
  /\ Len(log) = maxRetries
  /\ \A i \in 1..Len(log) : Failed(i)

\* the suspension between the failure of attempt n - 1 and the call of attempt n
WaitBefore(n) == (IF n > 1 THEN log[n - 1].cool ELSE 0) + log[n].backoff

RECURSIVE SumWaits(_)
SumWaits(n) == IF n = 0 THEN 0 ELSE SumWaits(n - 1) + WaitBefore(n)

\* C1: an invocation makes at most maxRetries calls of the operation, ends in
\* exactly one of SUCCEEDED (a value returned) and FAILED (an error thrown),
\* throws only after the maxRetries-th call has failed, and, every timer and
\* request settling, does end.
C1_Budget ==
  /\ Calls <= maxRetries
  /\ Len(log) <= maxRetries
  /\ (pc = "SUCCEEDED") = (outcome.kind = "return")
  /\ (pc = "FAILED") = (outcome.kind = "throw")
  /\ outcome.kind = "throw" => AllFailed /\ Calls = maxRetries
  /\ AllFailed => Calls = maxRetries /\ pc = "FAILED"

C2_LastErrorVerbatim ==
  AllFailed =>
    /\ outcome.kind = "throw"
    /\ outcome.err = log[maxRetries].err
    /\ outcome.err.at = maxRetries
    /\ outcome.val = 0

C2_Witness ==
  /\ AllFailed
  /\ maxRetries = 3
  /\ log[1].err.msg # log[3].err.msg
  /\ log[2].err.msg # log[3].err.msg

\* C3: a success on attempt k ends the invocation with k calls and that
\* attempt's value; the successful attempt rotates nothing, starts no sleep,
\* and nothing of the invocation runs after it.
C3_State ==
  pc = "SUCCEEDED" =>
    /\ Calls = Len(log)
    /\ \A i \in 1..(Len(log) - 1) : Failed(i)
    /\ log[Len(log)].res = "ok"
    /\ outcome = [kind |-> "return", val |-> Len(log), err |-> NoError]
    /\ log[Len(log)].rot = "none"
    /\ log[Len(log)].cool = 0
    /\ ~ENABLED (Wake \/ CooldownWake \/ Succeed \/ \E msg \in RemoteErrors : Fail(msg))

C3_SuccessShortCircuits ==
  /\ []C3_State
  /\ [][pc' = "SUCCEEDED" => activeId' = activeId /\ entries' = entries]_vars

C3_Witness ==
  pc = "SUCCEEDED" /\ Len(log) = 2 /\ maxRetries = 3 /\ Len(entries) = 2
    /\ activeId \in IdsOf(entries)

C5_Pre ==
  /\ Len(entries) = 2
  /\ Terminal
  /\ Len(log) >= 2
  /\ \A i \in 1..(Len(log) - 1) : RateLimited(i)

C6_CooldownPlusBackoff ==
  \A n \in 1..Len(log) :
    (RateLimited(n) /\ n < maxRetries) =>
      /\ log[n].rot \in {"yes", "no"}
      /\ log[n].rot = "no" =>
           /\ log[n].cool = 5000 * n
           /\ log[n].act = log[n].used
           /\ n < Len(log) =>
                WaitBefore(n + 1) = 5000 * n + baseDelay * 2 ^ (n - 1)
      /\ log[n].rot = "yes" =>
           /\ log[n].cool = 0
           /\ n < Len(log)
           /\ WaitBefore(n + 1) = baseDelay * 2 ^ (n - 1)

C6_Witness ==
  /\ Len(log) = 3
  /\ RateLimited(2)
  /\ log[2].rot = "no"
  /\ log[3].invoked

\* C7: with exactly 1 credential and an operation that always fails with a
\* rate-limit error, every rotation attempt returns false and the wait before
\* attempt n (2 <= n <= maxRetries) is baseDelay * 2^(n-2) + 5000 * (n-1).
C7_Pre ==
  /\ Len(entries) = 1
  /\ pc # "idle"
  /\ \A i \in 1..Len(log) : log[i].res # "pending" => RateLimited(i)

C7_SingleKeyDelays ==
  C7_Pre =>
    /\ \A n \in 1..Len(log) :
         (RateLimited(n) /\ n < maxRetries) => log[n].rot = "no"
    /\ \A n \in 2..Len(log) :
         WaitBefore(n) = baseDelay * 2 ^ (n - 2) + 5000 * (n - 1)

\* C7 as claimed: the cooldown part of the wait before attempt n is 5000 * n
C7_AsClaimed ==
  C7_Pre =>
    /\ \A n \in 1..Len(log) :
         (RateLimited(n) /\ n < maxRetries) => log[n].rot = "no"
    /\ \A n \in 2..Len(log) :
         WaitBefore(n) = baseDelay * 2 ^ (n - 2) + 5000 * n

C7_Witness ==
  /\ C7_Pre
  /\ pc = "FAILED"
  /\ maxRetries = 3
  /\ Calls = 3

\* C8: credentials A, B, C (ids 1, 2, 3) with A active, 3 attempts, rate-limit
\* failures on attempts 1 and 2 and a success on attempt 3: B is active after
\* the first failure, C after the second, attempt 3 reads C, its value is
\* returned and the waits add up to baseDelay + 2 * baseDelay.
C8_Pre ==
  /\ Len(entries) = 3
  /\ <<entries[1].id, entries[2].id, entries[3].id>> = <<1, 2, 3>>
  /\ maxRetries = 3
  /\ pc = "SUCCEEDED"
  /\ Len(log) = 3
  /\ log[1].used = 1
  /\ RateLimited(1)
  /\ RateLimited(2)

C9_Pre ==
  /\ Len(entries) >= 2
  /\ Len(rotLog) = Len(entries)
  /\ rotLog[1].from \in IdsOf(entries)

C9_RoundRobin ==
  C9_Pre =>
    LET N == Len(entries)
        start == rotLog[1].from
        i0 == CHOOSE i \in 1..N : entries[i].id = start
    IN  /\ \A k \in 1..N : rotLog[k].ok
        /\ \A k \in 1..N : rotLog[k].act = entries[((i0 - 1 + k) % N) + 1].id
        /\ { rotLog[k].act : k \in 1..(N - 1) } = IdsOf(entries) \ {start}
        /\ \A j, k \in 1..(N - 1) : rotLog[j].act = rotLog[k].act => j = k
        /\ rotLog[N].act = start
        /\ activeId = start

C9_Witness == C9_Pre /\ Len(entries) = 3 /\ rotLog[1].from = entries[2].id

\* C10: with 0 or 1 entries a rotation returns false and changes neither the
\* active id nor the entries, whether the active id is set, unset or dangling.
C10_NoRotationBelowTwo ==
  [][(rotLog' # rotLog /\ rotLog' # <<>> /\ Len(entries) <= 1) =>
       /\ ret' = [op |-> "rotate", ok |-> FALSE]
       /\ rotLog'[Len(rotLog')].ok = FALSE
       /\ activeId' = activeId
       /\ entries' = entries]_vars

C10_Witness ==
  /\ ret.op = "rotate"
  /\ Len(rotLog) >= 1
  /\ Len(entries) = 1
  /\ activeId # None
  /\ activeId \notin IdsOf(entries)

\* C11: within one invocation, a rotation is called for once after each
\* rate-limited failure of an attempt before the last, and never after the
\* last attempt: a rate-limited last attempt raises in the same step, with
\* the active id untouched and no cooldown.
C11_State ==
  \A n \in 1..Len(log) :
    /\ (RateLimited(n) /\ n < maxRetries) =>
          /\ log[n].rot \in {"yes", "no"}
          /\ log[n].rot = "yes" => (log[n].to # None /\ log[n].cool = 0)
          /\ log[n].rot = "no" => (log[n].to = None /\ log[n].cool > 0)
    /\ (Failed(n) /\ n = maxRetries) =>
          /\ pc = "FAILED"
          /\ log[n].rot = "none"
          /\ log[n].to = None
          /\ log[n].cool = 0
          /\ log[n].act = activeId

NonRate(i) == Failed(i) /\ log[i].err.msg \in {OtherMsg, NoKeyMsg}

C12_State ==
  /\ \A n \in 1..Len(log) :
        NonRate(n) => /\ log[n].rot = "none"
                      /\ log[n].to = None
                      /\ log[n].cool = 0
  /\ (\A i \in 1..Len(log) : Failed(i) => NonRate(i)) =>
        /\ pc # "cooldown"
        /\ \A n \in 2..Len(log) :
              WaitBefore(n) = baseDelay * Pow2(n - 2)

C12_NonRateLimitNoRotation ==
  /\ []C12_State
  /\ [][(\A i \in 1..Len(log') :
            log'[i].res = "failed" => log'[i].err.msg \in {OtherMsg, NoKeyMsg})
          => (entries' = entries /\ activeId' = activeId)]_vars

C12_Witness ==
  /\ pc = "FAILED"
  /\ maxRetries = 3
  /\ Len(entries) >= 2
  /\ activeId \in IdsOf(entries)
  /\ \A n \in 1..3 : NonRate(n) /\ log[n].err.msg = OtherMsg

\* C13: a façade called while the store has no active secret fails at once
\* with the no-credential error: no remote call, no second attempt and no
\* backoff delay of executeWithRetry.
NoCredentialAtCall ==
  /\ fac.fn # "none"
  /\ \/ Len(log) = 0
     \/ log[1].res = "failed" /\ log[1].err.msg = NoKeyMsg

C13_FailFast ==
  NoCredentialAtCall =>
    /\ fac.res.kind = "throw"
    /\ fac.res.err.msg = NoKeyMsg
    /\ Len(log) <= 1
    /\ \A n \in 1..Len(log) : log[n].backoff = 0

\* C14: whatever façade is running, each attempt sends the secret of the
\* entry that is active when the attempt is made, so the attempt that follows
\* a successful rotation uses the entry the rotation activated.
C14_ReadsActiveEachAttempt ==
  fac.fn # "none" =>
    \A n \in 2..Len(log) :
      (log[n].invoked /\ log[n - 1].rot = "yes") => log[n].used = log[n - 1].to

\* C19: generateImageForDesign never raises: when its executeWithRetry run
\* ends in FAILED, whatever the final error, executeWithRetry has thrown that
\* error and the façade has returned undefined.
C19_ImageNeverRaises ==
  fac.fn = "generateImageForDesign" =>
    /\ fac.res.kind # "throw"
    /\ pc = "FAILED" =>
          /\ outcome.kind = "throw"
          /\ outcome.err = log[Len(log)].err
          /\ fac.res = Absent
    /\ pc = "SUCCEEDED" => fac.res = outcome

C19_Witness ==
  /\ fac.fn = "generateImageForDesign"
  /\ pc = "FAILED"
  /\ outcome.kind = "throw"
  /\ outcome.err.msg = RateMsg
  /\ log[1].err.msg = OtherMsg
  /\ fac.res = Absent

\* C15: add appends the new entry at the end of the list, the existing entries
\* and their order unchanged; the new entry becomes active when it is the only
\* entry after the append, and otherwise the active id is left as it was.
C15_AddAppends ==
  [][ret'.op = "add" =>
       LET n == Len(entries)
           new == entries'[n + 1]
       IN  /\ Len(entries') = n + 1
           /\ SubSeq(entries', 1, n) = entries
           /\ new.id \notin IdsOf(entries)
           /\ \E c \in CredInputs : new.name = Trim(c.name) /\ new.key = Trim(c.key)
           /\ activeId' = IF n = 0 THEN new.id ELSE activeId]_vars

C15_Witness ==
  /\ ret.op = "add"
  /\ Len(entries) = 3
  /\ activeId = entries[1].id
  /\ entries[3].name = <<"n">>
  /\ entries[3].key = <<"k">>

\* C16: delete of a stored id removes that entry alone and keeps the order of
\* the others; a deleted active entry hands the active id to the first
\* remaining entry, or clears it when none remains; otherwise the active id
\* is unchanged.
C16_DeleteReassigns ==
  [][ret' = [op |-> "delete", ok |-> TRUE] =>
       \E i \in 1..Len(entries) :
         /\ entries' = SubSeq(entries, 1, i - 1) \o
                         SubSeq(entries, i + 1, Len(entries))
         /\ activeId' = IF activeId # entries[i].id THEN activeId
                         ELSE IF entries' = <<>> THEN None
                         ELSE entries'[1].id]_vars

C16_Witness ==
  /\ ret = [op |-> "delete", ok |-> TRUE]
  /\ Len(entries) = 2
  /\ activeId = entries[1].id
  /\ activeId > entries[2].id

\* C17: update, delete and setActive called with an id that is not stored
\* return false and leave the entries record and the active record as they were.
C17_UnknownIdNoChange ==
  [][\A id \in Ids \ IdsOf(entries) :
       (\/ delete(id)
        \/ setActiveCall(id)
        \/ \E c \in CredInputs : update(id, c.name, c.key))
       => (/\ ret'.ok = FALSE
           /\ entries' = entries
           /\ activeId' = activeId
           /\ stored' = stored)]_vars

C17_Witness ==
  /\ ret = [op |-> "setActive", ok |-> FALSE]
  /\ Len(entries) = 2
  /\ activeId \in IdsOf(entries)

\* C18: getAll never fails and returns a sequence: the empty one whenever the
\* credentials record is absent, unparseable, or parseable but not a list, so
\* that the store calls and the rotation built on it complete without raising.
C18_GetAllTotal ==
  /\ ret.op \in LoadOps => ret.ok
  /\ (ret.op = "getAll" /\ stored # "array") =>
        getAllRaw(stored, entries) = EmptyList

\* C20: the header's reading of the active entry is refreshed after every
\* change of the store, the change of active entry made by a rotation inside
\* executeWithRetry included: once loaded it is never stale.
C20_ViewNeverStale ==
  view.loaded => view = viewOf(entries, activeId)

C27_RotateIndex ==
  [][(rotLog' # rotLog /\ rotLog' # <<>> /\ Len(entries) >= 2) =>
       LET N == Len(entries)
           i == IF activeId \in IdsOf(entries)
                THEN (CHOOSE k \in 1..N : entries[k].id = activeId) - 1
                ELSE -1
       IN  /\ activeId' = entries[((i + 1) % N) + 1].id
           /\ ret' = [op |-> "rotate", ok |-> TRUE]
           /\ rotLog'[Len(rotLog')].ok
           /\ entries' = entries
           /\ stored' = stored
           /\ UNCHANGED <<execVars, fac, view, bgVars>>]_vars

C27_Witness ==
  /\ ret = [op |-> "rotate", ok |-> TRUE]
  /\ Len(entries) >= 2
  /\ Len(rotLog) = 1
  /\ rotLog[1].from # None
  /\ rotLog[1].from \notin IdsOf(entries)
  /\ activeId = entries[1].id

\* C24: isRateLimitError returns true exactly when the text of the error, its
\* message or else its string form, holds one of "429", "Too Many Requests",
\* "RESOURCE_EXHAUSTED", "quota" in that very case; it returns false for
\* every other value, null included, and raises for none.
TextOf(e) ==
  IF e.kind = "Error" /\ e.text # <<>> THEN e.text ELSE toStringOf(e)

C24_ClassifierTotal ==
  ret.op = "isRateLimitError" =>
    /\ outcome.kind = "return"
    /\ ret.ok = (\E sig \in {Sig429, SigTooMany, SigExhausted, SigQuota} :
                   includes(TextOf(lastError), sig))

\* C25: for every façade the outcomes "no credential configured", "all
\* attempts exhausted" and "succeeded" are told apart by what the caller
\* gets: the result of a call is one that no other outcome can produce.
OutcomeClasses == {"noCredential", "exhausted", "succeeded"}

ThrowOf(msg, a) == [kind |-> "throw", val |-> 0, err |-> [msg |-> msg, at |-> a]]

\* what the caller of fn can get when the call ends the way c names
ResultsOf(fn, c) ==
  LET attempts == 1..Policy(fn).m
  IN  CASE c = "noCredential" ->
             IF readsKeyInside(fn)
             THEN { onFailed(fn, ThrowOf(NoKeyMsg, a)) : a \in attempts }
             ELSE { Absent }
        [] c = "exhausted" ->
             { onFailed(fn, ThrowOf(msg, a)) : msg \in RemoteErrors, a \in attempts }
        [] c = "succeeded" ->
             { [kind |-> "return", val |-> a, err |-> NoError] : a \in attempts }

\* how the call ended: on the missing secret, on a value, or on a remote error
OutcomeClass ==
  IF Len(log) = 0 \/ (pc = "FAILED" /\ outcome.err.msg = NoKeyMsg)
  THEN "noCredential"
  ELSE IF pc = "SUCCEEDED" THEN "succeeded"
  ELSE "exhausted"

C25_OutcomesDistinct ==
  (fac.fn # "none" /\ fac.res # NoOutcome) =>
    \A c \in OutcomeClasses \ {OutcomeClass} : fac.res \notin ResultsOf(fac.fn, c)

\* C28: starting from the empty store, after any sequence of add, update,
\* delete, setActive, clearAll and rotations, the active id is unset exactly
\* when the list is empty and otherwise names an entry of the list.
C28_ActiveNeverDangles ==
  /\ (activeId = None) <=> (entries = <<>>)
  /\ activeId # None => activeId \in IdsOf(entries)
  /\ (stored = "absent") => entries = <<>>

C28_Witness ==
  /\ ret = [op |-> "delete", ok |-> TRUE]
  /\ Len(entries) = 2
  /\ entries[1].id > entries[2].id
  /\ activeId = entries[1].id

(* ---- two runs side by side ---- *)
\* the two executeWithRetry runs of the batch
Runs == {Cur, peer}

OtherRun(inv) == IF inv = Cur THEN peer ELSE Cur

\* the run has moved the shared active id at least once
Rotated(inv) == \E i \in 1..Len(inv.log) : inv.log[i].rot = "yes"

\* rotateToNext returned true after attempt n and attempt n + 1 entered apiCall
SwitchedAt(inv, n) ==
  /\ n < Len(inv.log)
  /\ inv.log[n].rot = "yes"
  /\ inv.log[n + 1].invoked

SecretOf(id) == getActive(entries, id).key

\* the remote answers by the secret alone: it accepts "k" and rejects "x"
\* with a quota error
Consistent(inv) ==
  \A i \in 1..Len(inv.log) :
    inv.log[i].invoked =>
      \/ inv.log[i].res = "pending"
      \/ /\ SecretOf(inv.log[i].used) = <<"k">>
         /\ inv.log[i].res = "ok"
      \/ /\ SecretOf(inv.log[i].used) = <<"x">>
         /\ inv.log[i].res = "failed"
         /\ inv.log[i].err.msg = RateMsg

\* the same run with no other run beside it: its first attempt uses the
\* entry it used here, and after a quota error it rotates once (two
\* attempts) and uses the next entry
AloneSucceeds(inv) ==
  LET first == inv.log[1].used
      next == tryRotateTarget(entries, first)
  IN  \/ SecretOf(first) = <<"k">>
      \/ next # None /\ SecretOf(next) = <<"k">>

\* C22: when the rotations of concurrent runs interleave, no run ends in
\* FAILED that would have succeeded alone against the same credentials.
C22_NeverWorseThanAlone ==
  \A inv \in Runs :
    (BothStarted /\ Consistent(Cur) /\ Consistent(peer) /\ inv.pc = "FAILED")
      => ~AloneSucceeds(inv)

\* a run that has started and not yet settled
InFlight(inv) == inv.pc \in {"sleeping", "calling", "cooldown"}

Settled(inv) == inv.pc \in {"SUCCEEDED", "FAILED"}

\* no run has used more loop iterations, or entered apiCall more often,
\* than the maxRetries it was called with
WithinBudget ==
  \A inv \in Runs :
    /\ Len(inv.log) <= inv.maxRetries
    /\ inv.attempt < inv.maxRetries \/ inv.pc = "idle"

\* whatever state the other run is in, the continuation of a run in flight
\* can be taken: its timer can fire or its request can settle
NeverPaused ==
  /\ (BothStarted /\ pc = "sleeping") => ENABLED Wake
  /\ (BothStarted /\ pc = "calling") => ENABLED Succeed
  /\ (BothStarted /\ pc = "cooldown") => ENABLED CooldownWake
  /\ (BothStarted /\ InFlight(peer)) => ENABLED Dispatch

\* a step of one run leaves the loop state of the other as it was
OwnSequence == peer' = peer \/ (peer' = Cur /\ Cur' = peer)

\* C21: each of the concurrent runs has its own attempt sequence: a failure,
\* rotation, backoff or cooldown of one run never changes, pauses or cancels
\* the other, no run makes more than its own maxRetries attempts, and both
\* runs end in SUCCEEDED or FAILED.
C21_IndependentRuns ==
  /\ [](WithinBudget /\ NeverPaused)
  /\ [][OwnSequence]_vars
  /\ <>(Settled(Cur) /\ Settled(peer))

C21_Witness ==
  /\ pc = "FAILED"
  /\ Len(log) = 2
  /\ Rotated(Cur)
  /\ isRateLimitError(log[2].err)
  /\ peer.pc = "SUCCEEDED"
  /\ Len(peer.log) = 2
  /\ peer.log[1].res = "failed"
  /\ ~Rotated(peer)

\* C30: at most one image batch is in flight, and a design whose image
\* failed in a completed batch is in no later batch until the user acts
\* again, so the calls issued per design stay bounded.
C30_SingleFlightQuiesces ==
  /\ batch.flights <= 1
  /\ batch.flying \cap batch.stale = {}
====
